---------------------------- MODULE Spec2Model ----------------------------
(***************************************************************************)
(* scripts/workspace_order.py: emit the workspace packages in the required *)
(* publication order.                                                      *)
(*                                                                         *)
(* main() walks the fixed list ORDERED_PATHS once. For each entry it looks *)
(* for <rel>/package.json, skips the entry when that is not a file, and    *)
(* otherwise parses the file, takes its "name" (the path when there is no  *)
(* such key) and prints "<name>|<rel>".                                    *)
(*                                                                         *)
(* Modelling conventions                                                   *)
(*   - A Python str is a sequence of segments: each segment is either a    *)
(*     newline-free piece of text or the line break "\n". Concatenation is *)
(*     \o, and the number of lines of a text is its number of "\n".        *)
(*   - A Python value is a record with a field `type`.                     *)
(*   - The text of a package.json is its JSON syntax tree, or Garbage for  *)
(*     a text json.loads rejects.                                          *)
(*   - A call that can raise returns [ok |-> TRUE, val |-> v] or           *)
(*     [ok |-> FALSE, exc |-> <exception class>].                          *)
(*   - A package.json that is a file can be read, and sys.stdout accepts   *)
(*     every str it is given.                                              *)
(***************************************************************************)
EXTENDS Naturals, Sequences, FiniteSets, TLC

(***************************************************************************)
(* Bounds of the model.                                                    *)
(***************************************************************************)
\* At most this many of the manifests are out of the ordinary: every other
\* package.json is missing or is a JSON object with a one-line "name".
MaxOdd == 1

(***************************************************************************)
(* The program's constant.                                                 *)
(***************************************************************************)
ORDERED_PATHS ==
    << <<"shareds/common">>,
       <<"shareds/cache">>,
       <<"shareds/async">>,
       <<"shareds/reactive">>,
       <<"packages/validator">>,
       <<"packages/expression">>,
       <<"packages/pattern-matching">>,
       <<"packages/specification">> >>

(***************************************************************************)
(* Python values.                                                          *)
(***************************************************************************)
PyStr(s)      == [type |-> "str", v |-> s]
PyNone        == [type |-> "NoneType"]
PyList        == [type |-> "list"]
PyDict(items) == [type |-> "dict", items |-> items]

Ok(v)      == [ok |-> TRUE, val |-> v]
Raise(exc) == [ok |-> FALSE, exc |-> exc]

(***************************************************************************)
(* The files main() may meet: the state of <rel>/package.json.             *)
(***************************************************************************)
Absent     == [exists |-> FALSE]
File(text) == [exists |-> TRUE, text |-> text]

Garbage             == [json |-> "invalid"]
JsonNull            == [json |-> "null"]
JsonString(s)       == [json |-> "string", chars |-> s]
JsonArray           == [json |-> "array"]
JsonObject(members) == [json |-> "object", members |-> members]

\* {"name": "pkg-a", "version": "1.0.0"}
NamedText    == JsonObject(<< <<"name", JsonString(<<"pkg-a">>)>>,
                              <<"version", JsonString(<<"1.0.0">>)>> >>)
\* {"version": "1.0.0"}
NoNameText   == JsonObject(<< <<"version", JsonString(<<"1.0.0">>)>> >>)
\* {"name": "pkg\nb"}
TwoLineText  == JsonObject(<< <<"name", JsonString(<<"pkg", "\n", "b">>)>> >>)
\* {"name": null}
NullNameText == JsonObject(<< <<"name", JsonNull>> >>)

OrdinaryManifests == {Absent, File(NamedText)}
OddManifests      == {File(NoNameText), File(TwoLineText), File(NullNameText),
                      File(Garbage), File(JsonArray), File(JsonNull)}

Rels == {ORDERED_PATHS[k] : k \in 1..Len(ORDERED_PATHS)}

(***************************************************************************)
(* The library calls of main().                                            *)
(***************************************************************************)
\* Mutant of is_file: the existence check always succeeds.
is_file_always(manifest) == TRUE

\* Path(rel) / "package.json", then Path.is_file()
is_file(manifest) == manifest.exists

\* Path.read_text()
read_text(manifest) ==
    IF manifest.exists THEN Ok(manifest.text) ELSE Raise("FileNotFoundError")

\* The dict of a JSON object's members; a repeated key keeps its last value.
RECURSIVE decode(_)
RECURSIVE members_to_items(_)
members_to_items(members) ==
    IF members = <<>> THEN <<>>
    ELSE LET n     == Len(members)
             first == members_to_items(SubSeq(members, 1, n - 1))
         IN  (members[n][1] :> decode(members[n][2])) @@ first

decode(text) ==
    CASE text.json = "object" -> PyDict(members_to_items(text.members))
      [] text.json = "array"  -> PyList
      [] text.json = "string" -> PyStr(text.chars)
      [] text.json = "null"   -> PyNone

\* json.loads(text)
loads(text) ==
    IF text.json = "invalid" THEN Raise("JSONDecodeError") ELSE Ok(decode(text))

\* Mutant of get: a value that is no dict is taken for a dict without the key.
get_lenient(data, key, default) ==
    IF data.type # "dict" THEN Ok(default)
    ELSE IF key \in DOMAIN data.items THEN Ok(data.items[key])
    ELSE Ok(default)

\* Mutant of get: the default is dropped, data.get(key).
get_without_default(data, key, default) ==
    IF data.type # "dict" THEN Raise("AttributeError")
    ELSE IF key \in DOMAIN data.items THEN Ok(data.items[key])
    ELSE Ok(PyNone)

\* data.get(key, default)
get(data, key, default) ==
    IF data.type # "dict" THEN Raise("AttributeError")
    ELSE IF key \in DOMAIN data.items THEN Ok(data.items[key])
    ELSE Ok(default)

\* str(value), as the f-string applies it
str(value) ==
    CASE value.type = "str"      -> value.v
      [] value.type = "NoneType" -> <<"None">>
      [] value.type = "list"     -> <<"[]">>

\* Mutant of format: the two fields the other way round, f"{rel}|{name}".
format_swapped(name, rel) == rel \o <<"|">> \o str(name)

\* f"{name}|{rel}"
format(name, rel) == str(name) \o <<"|">> \o rel

\* Mutant of print: the line terminator is left out, print(text, end="").
print_unterminated(out, text) == out \o text

\* print(text): the text, then the line terminator
print(out, text) == out \o text \o <<"\n">>

(***************************************************************************)
(* The state of a run.                                                     *)
(***************************************************************************)
VARIABLES
    ordered_paths,  \* the module-level list ORDERED_PATHS
    fs,             \* the state of <rel>/package.json, for each rel
    it,             \* how many entries the for loop has taken from the list
    rel,            \* the loop variable
    data,           \* the local `data`
    name,           \* the local `name`
    stdout,         \* what has been written to standard output
    pc,             \* "loop", "returned" (main returned) or "raised"
    exc,            \* the exception that left main(), when pc = "raised"
    checked,        \* history: the paths is_file() was called for, in order
    opened,         \* history: the paths read_text() was called for, in order
    printed         \* history: the print calls, [rel, name, text], in order

vars == <<ordered_paths, fs, it, rel, data, name, stdout, pc, exc,
          checked, opened, printed>>

Unbound == [type |-> "unbound"]

\* The sets of paths whose manifest may be out of the ordinary.
OddPlacements == {S \in SUBSET Rels : Cardinality(S) <= MaxOdd}

Init ==
    /\ ordered_paths = ORDERED_PATHS
    /\ \E Odd \in OddPlacements :
         \E o \in [Odd -> OddManifests], b \in [Rels \ Odd -> OrdinaryManifests] :
            fs = [r \in Rels |-> IF r \in Odd THEN o[r] ELSE b[r]]
    /\ it = 0
    /\ rel = Unbound
    /\ data = Unbound
    /\ name = Unbound
    /\ stdout = <<>>
    /\ pc = "loop"
    /\ exc = "none"
    /\ checked = <<>>
    /\ opened = <<>>
    /\ printed = <<>>

\* for rel in ORDERED_PATHS: the loop has another entry to take
Iterating == pc = "loop" /\ it < Len(ordered_paths)

\* Mutant of NextRel: an index that is one too low, so the first entry is
\* taken twice.
NextRelOffByOne == ordered_paths[IF it = 0 THEN 1 ELSE it]

\* Mutant of NextRel: the list is walked from its end, reversed(ORDERED_PATHS).
NextRelReversed == ordered_paths[Len(ordered_paths) - it]

\* the entry the for statement binds rel to next
NextRel == ordered_paths[it + 1]

\* json.loads(pkg_json.read_text())
parse(manifest) ==
    LET text == read_text(manifest)
    IN  IF text.ok THEN loads(text.val) ELSE text

\* Mutant of Continue: the loop does not advance past a missing manifest.
ContinueStuck ==
    /\ Iterating
    /\ ~is_file(fs[NextRel])
    /\ rel' = NextRel
    /\ checked' = Append(checked, NextRel)
    /\ UNCHANGED <<ordered_paths, fs, it, data, name, stdout, pc, exc, opened,
                   printed>>

\* Mutant of Continue: a missing manifest ends the loop, `break` for `continue`.
ContinueAsBreak ==
    /\ Iterating
    /\ ~is_file(fs[NextRel])
    /\ it' = it + 1
    /\ rel' = NextRel
    /\ checked' = Append(checked, NextRel)
    /\ pc' = "returned"
    /\ UNCHANGED <<ordered_paths, fs, data, name, stdout, exc, opened, printed>>

\* if not pkg_json.is_file(): continue
Continue ==
    /\ Iterating
    /\ ~is_file(fs[NextRel])
    /\ it' = it + 1
    /\ rel' = NextRel
    /\ checked' = Append(checked, NextRel)
    /\ UNCHANGED <<ordered_paths, fs, data, name, stdout, pc, exc, opened,
                   printed>>

\* Mutant of LoadsRaises: the exception is caught and the path skipped,
\* try: ... except ValueError: continue.
LoadsRaisesCaught ==
    /\ Iterating
    /\ is_file(fs[NextRel])
    /\ ~parse(fs[NextRel]).ok
    /\ it' = it + 1
    /\ rel' = NextRel
    /\ checked' = Append(checked, NextRel)
    /\ opened' = Append(opened, NextRel)
    /\ UNCHANGED <<ordered_paths, fs, data, name, stdout, pc, exc, printed>>

\* data = json.loads(pkg_json.read_text()) raises
LoadsRaises ==
    /\ Iterating
    /\ is_file(fs[NextRel])
    /\ ~parse(fs[NextRel]).ok
    /\ it' = it + 1
    /\ rel' = NextRel
    /\ checked' = Append(checked, NextRel)
    /\ opened' = Append(opened, NextRel)
    /\ pc' = "raised"
    /\ exc' = parse(fs[NextRel]).exc
    /\ UNCHANGED <<ordered_paths, fs, data, name, stdout, printed>>

\* data.get("name", rel), on the data parsed from the manifest of rel
lookup(manifest, r) == get(parse(manifest).val, "name", PyStr(r))

\* name = data.get("name", rel) raises
GetRaises ==
    /\ Iterating
    /\ is_file(fs[NextRel])
    /\ parse(fs[NextRel]).ok
    /\ ~lookup(fs[NextRel], NextRel).ok
    /\ data' = parse(fs[NextRel]).val
    /\ exc' = lookup(fs[NextRel], NextRel).exc
    /\ it' = it + 1
    /\ rel' = NextRel
    /\ checked' = Append(checked, NextRel)
    /\ opened' = Append(opened, NextRel)
    /\ pc' = "raised"
    /\ UNCHANGED <<ordered_paths, fs, name, stdout, printed>>

\* the whole body: data = ...; name = ...; print(f"{name}|{rel}")
Emit ==
    /\ Iterating
    /\ is_file(fs[NextRel])
    /\ parse(fs[NextRel]).ok
    /\ lookup(fs[NextRel], NextRel).ok
    /\ data' = parse(fs[NextRel]).val
    /\ name' = lookup(fs[NextRel], NextRel).val
    /\ stdout' = print(stdout, format(name', NextRel))
    /\ printed' = Append(printed, [rel  |-> NextRel,
                                   name |-> name',
                                   text |-> format(name', NextRel)])
    /\ it' = it + 1
    /\ rel' = NextRel
    /\ checked' = Append(checked, NextRel)
    /\ opened' = Append(opened, NextRel)
    /\ UNCHANGED <<ordered_paths, fs, pc, exc>>

\* the list is exhausted: main() returns None
Return ==
    /\ pc = "loop"
    /\ it >= Len(ordered_paths)
    /\ pc' = "returned"
    /\ UNCHANGED <<ordered_paths, fs, it, rel, data, name, stdout, exc,
                   checked, opened, printed>>

Next == Continue \/ LoadsRaises \/ GetRaises \/ Emit \/ Return

Spec == Init /\ [][Next]_vars

\* The exit status of the process, once main() is over.
ExitStatus == IF pc = "returned" THEN 0 ELSE 1

(***************************************************************************)
(* Vocabulary of the properties. It speaks of the files as they are on     *)
(* disk (the JSON text), not of the values main() computes from them.      *)
(***************************************************************************)
N == Len(ORDERED_PATHS)

Path(k)       == ORDERED_PATHS[k]
ManifestAt(k) == fs[Path(k)]
Exists(k)     == ManifestAt(k).exists
IsObject(k)   == Exists(k) /\ ManifestAt(k).text.json = "object"
Malformed(k)  == Exists(k) /\ ~IsObject(k)

\* The positions of the "name" members of the object at index k.
NameMembers(k) ==
    {m \in 1..Len(ManifestAt(k).text.members) :
        ManifestAt(k).text.members[m][1] = "name"}
HasName(k) == IsObject(k) /\ NameMembers(k) # {}
NameValue(k) ==
    LET last == CHOOSE m \in NameMembers(k) : \A x \in NameMembers(k) : x <= m
    IN  ManifestAt(k).text.members[last][2]

\* How a JSON value reads once printed by Python: a string as its
\* characters, null as None.
Rendered(value) ==
    IF value.json = "string" THEN value.chars ELSE <<"None">>

ExpectedName(k) == IF HasName(k) THEN Rendered(NameValue(k)) ELSE Path(k)
ExpectedText(k) == ExpectedName(k) \o <<"|">> \o Path(k)
ExpectedLine(k) == ExpectedText(k) \o <<"\n">>

\* The lines of the existing manifests among the first k paths, in order.
RECURSIVE ExpectedOutput(_)
ExpectedOutput(k) ==
    IF k = 0 THEN <<>>
    ELSE ExpectedOutput(k - 1) \o (IF Exists(k) THEN ExpectedLine(k) ELSE <<>>)

LineCount(out) == Cardinality({i \in 1..Len(out) : out[i] = "\n"})
IsPrefix(s, t) == Len(s) <= Len(t) /\ SubSeq(t, 1, Len(s)) = s

Finished   == pc # "loop"
Visited(k) == k <= it
\* The indices of the print calls so far, in the order of the calls.
PrintedIndex(c) == CHOOSE k \in 1..N : Path(k) = printed[c].rel
PrintedAt(k)    == {c \in 1..Len(printed) : printed[c].rel = Path(k)}
ExistingUpTo(k) == {j \in 1..k : Exists(j)}

AllObjects == \A k \in 1..N : Exists(k) => IsObject(k)

(***************************************************************************)
(* C1. When every existing package.json parses as a JSON object, the       *)
(* complete standard output of main() is exactly, in ORDERED_PATHS order,  *)
(* one line "<name>|<p>" for each path p whose package.json exists, <name> *)
(* being the manifest's "name" value when it has one and p otherwise, and  *)
(* nothing else.                                                           *)
(***************************************************************************)
C1_OutputIsTheListing ==
    (AllObjects /\ Finished) => stdout = ExpectedOutput(N)

C1_Witness ==
    /\ AllObjects
    /\ pc = "returned"
    /\ \E a, b, c \in 1..N : ~Exists(a) /\ HasName(b) /\ IsObject(c) /\ ~HasName(c)

(***************************************************************************)
(* C2 as stated. At the end of every run, each path whose manifest exists  *)
(* and parses with a "name" field has its line "<name>|<path>" in the      *)
(* output, at the position matching list order, and the lines of two such  *)
(* paths at indices i < j come in that order.                              *)
(***************************************************************************)
LineInPlace(k) ==
    /\ Cardinality(ExistingUpTo(k)) <= Len(printed)
    /\ printed[Cardinality(ExistingUpTo(k))].rel = Path(k)
    /\ printed[Cardinality(ExistingUpTo(k))].text = ExpectedText(k)

InListOrder ==
    \A c, d \in 1..Len(printed) : c < d => PrintedIndex(c) < PrintedIndex(d)

C2_EveryNamedManifestListed ==
    Finished => /\ \A k \in 1..N : HasName(k) => LineInPlace(k)
                /\ InListOrder

(***************************************************************************)
(* C2 amended. The emitted paths always form a subsequence of              *)
(* ORDERED_PATHS, and at the end of a run each path whose manifest exists  *)
(* and parses with a "name" field has its line "<name>|<path>" at the      *)
(* position matching list order, provided main() was not ended by an       *)
(* exception at an earlier index.                                          *)
(***************************************************************************)
C2_NamedManifestsListedInOrder ==
    /\ InListOrder
    /\ Finished =>
         \A k \in 1..N :
            (HasName(k) /\ (pc = "raised" => k < it)) => LineInPlace(k)

C2_Witness ==
    /\ Finished
    /\ \E i, j \in 1..N : i < j /\ HasName(i) /\ HasName(j) /\ Visited(j)
    /\ \E k \in 1..N : ~Exists(k) /\ Visited(k)

(***************************************************************************)
(* C3 as stated. For a path whose manifest file is absent, main() emits no *)
(* line for that path and raises no error, and it goes on to process every *)
(* later path of the list.                                                 *)
(***************************************************************************)
SkippedSilently(k) ==
    /\ PrintedAt(k) = {}
    /\ ~(pc = "raised" /\ it = k)

C3_AbsentThenEveryLaterPath ==
    Finished =>
      \A k \in 1..N :
         (~Exists(k) /\ Visited(k)) =>
             /\ SkippedSilently(k)
             /\ \A j \in (k + 1)..N : Visited(j)

(***************************************************************************)
(* C3 amended. For a path whose manifest file is absent, main() emits no   *)
(* line for that path and raises no error at it, and the iteration goes on *)
(* past it: the run does not end there, and every later path is processed  *)
(* up to the end of the list or to the first later path whose manifest     *)
(* makes main() raise.                                                     *)
(***************************************************************************)
C3_AbsentNeverStopsTheIteration ==
    \A k \in 1..N :
       (~Exists(k) /\ Visited(k)) =>
           /\ SkippedSilently(k)
           /\ pc = "returned" => \A j \in (k + 1)..N : Visited(j)
           /\ pc = "raised" => it > k

C3_Witness ==
    /\ pc = "returned"
    /\ \E k, j \in 1..N : k < j /\ ~Exists(k) /\ Exists(j) /\ PrintedAt(j) # {}

(***************************************************************************)
(* C4. Right after main() has dealt with a path p whose manifest is a JSON *)
(* object, the last line of the output is "p|p" when the object has no     *)
(* "name" member, and "<value of name>|p" when it has one.                 *)
(***************************************************************************)
EndsWith(out, line) ==
    /\ Len(line) <= Len(out)
    /\ SubSeq(out, Len(out) - Len(line) + 1, Len(out)) = line

C4_NameOrPathFallback ==
    \A k \in 1..N :
       (it = k /\ IsObject(k)) =>
          IF HasName(k)
          THEN EndsWith(stdout,
                        Rendered(NameValue(k)) \o <<"|">> \o Path(k) \o <<"\n">>)
          ELSE EndsWith(stdout, Path(k) \o <<"|">> \o Path(k) \o <<"\n">>)

C4_Witness ==
    \E k \in 2..N :
       /\ it = k
       /\ IsObject(k) /\ ~HasName(k)
       /\ HasName(k - 1)
       /\ Len(printed) >= 2

HasLineBreak(text) == \E i \in 1..Len(text) : text[i] = "\n"

OneLineNames ==
    \A k \in 1..N :
       (HasName(k) /\ NameValue(k).json = "string")
          => ~HasLineBreak(NameValue(k).chars)

C6_TerminatesWithSuccess ==
    /\ pc = "loop" => ENABLED Next
    /\ Len(checked) = it
    /\ it <= N
    /\ (Finished /\ AllObjects) =>
          /\ pc = "returned"
          /\ ExitStatus = 0
          /\ it = N
          /\ checked = ORDERED_PATHS

C6_Witness ==
    /\ AllObjects
    /\ pc = "returned"
    /\ Cardinality(ExistingUpTo(N)) \in 3..(N - 1)

(***************************************************************************)
(* C7. When the manifest of the path at list index i exists but is         *)
(* malformed (no JSON, or no JSON object), no line is ever emitted for     *)
(* index i or a later index, whatever the later manifests are; and once    *)
(* the run has come to index i it has stopped there with an unhandled      *)
(* exception and takes no further step, the output being the lines of the  *)
(* existing manifests below i.                                             *)
(***************************************************************************)
C7_MalformedStopsTheRun ==
    \A i \in 1..N :
       Malformed(i) =>
          /\ IsPrefix(stdout, ExpectedOutput(i - 1))
          /\ \A j \in i..N : PrintedAt(j) = {}
          /\ Visited(i) =>
                /\ pc = "raised"
                /\ exc \in {"JSONDecodeError", "AttributeError"}
                /\ ExitStatus # 0
                /\ it = i
                /\ stdout = ExpectedOutput(i - 1)
                /\ ~ENABLED Next

C7_Witness ==
    \E i \in 2..(N - 1) :
       /\ Malformed(i)
       /\ Visited(i)
       /\ stdout # <<>>
       /\ \E j \in (i + 1)..N : IsObject(j)

(***************************************************************************)
(* C8 as stated. For every existing manifest whose text json.loads         *)
(* accepts, a document whose top level is not an object and one whose      *)
(* "name" is not a string included, main() raises no fault at that path    *)
(* and emits a line for it.                                                *)
(***************************************************************************)
Parses(k) == Exists(k) /\ ManifestAt(k).text.json # "invalid"

C8_NoFaultOnceParsed ==
    \A k \in 1..N :
       (Parses(k) /\ Visited(k)) =>
           /\ ~(pc = "raised" /\ it = k)
           /\ PrintedAt(k) # {}

(***************************************************************************)
(* C8 amended. For every existing manifest whose text json.loads accepts   *)
(* and whose top level is a JSON object, one whose "name" is not a string  *)
(* included, main() raises no fault at that path and emits a line for it;  *)
(* a parsed document whose top level is not an object makes the lookup of  *)
(* "name" raise AttributeError, and no line is emitted for that path.      *)
(***************************************************************************)
C8_NoFaultOnObjects ==
    \A k \in 1..N :
       (Parses(k) /\ Visited(k)) =>
          IF IsObject(k)
          THEN /\ ~(pc = "raised" /\ it = k)
               /\ Cardinality(PrintedAt(k)) = 1
               /\ \A c \in PrintedAt(k) : printed[c].text = ExpectedText(k)
          ELSE /\ pc = "raised" /\ it = k
               /\ exc = "AttributeError"
               /\ PrintedAt(k) = {}

C8_Witness ==
    \E k \in 1..N :
       /\ Visited(k)
       /\ HasName(k)
       /\ NameValue(k).json # "string"
       /\ PrintedAt(k) # {}

(***************************************************************************)
(* C9. The only side effect of main() is appending to standard output: no  *)
(* step changes the ordered path list or any manifest file, and each step  *)
(* leaves what was written and only adds to it; a manifest is read only    *)
(* when the existence check has succeeded for that same path; and the line *)
(* printed in an iteration comes from the manifest of that iteration's     *)
(* path alone, never from a record parsed earlier.                         *)
(***************************************************************************)
ReadsFollowChecks ==
    \A c \in 1..Len(opened) :
       /\ \E d \in 1..Len(checked) : checked[d] = opened[c]
       /\ fs[opened[c]].exists

LinesFromOwnManifest ==
    \A c \in 1..Len(printed) : printed[c].text = ExpectedText(PrintedIndex(c))

C9_OnlyStdoutIsWritten ==
    /\ [][/\ ordered_paths' = ordered_paths
          /\ fs' = fs
          /\ IsPrefix(stdout, stdout')]_vars
    /\ [](ordered_paths = ORDERED_PATHS)
    /\ []ReadsFollowChecks
    /\ []LinesFromOwnManifest

C9_Witness ==
    /\ Len(opened) >= 2
    /\ Len(checked) > Len(opened)
    /\ \E c \in 2..Len(printed) :
          ExpectedName(PrintedIndex(c)) # ExpectedName(PrintedIndex(c - 1))

(***************************************************************************)
(* C10 as stated. In every reachable state each path of ORDERED_PATHS has  *)
(* been visited at most once and has produced at most one output line (no  *)
(* step, which visits one path, adds more than one line), the paths of the *)
(* lines written so far are pairwise distinct, and what has been written   *)
(* is never retracted or reordered: the output of a state is a prefix of   *)
(* the output of every later one.                                          *)
(***************************************************************************)
VisitedOnce ==
    /\ \A c, d \in 1..Len(checked) : c # d => checked[c] # checked[d]
    /\ \A c \in 1..Len(checked) : checked[c] \in Rels

DistinctPaths ==
    \A c, d \in 1..Len(printed) : c # d => printed[c].rel # printed[d].rel

C10_OneLineEachAndAppendOnly ==
    /\ [](VisitedOnce /\ DistinctPaths)
    /\ [][/\ IsPrefix(stdout, stdout')
          /\ LineCount(stdout') <= LineCount(stdout) + 1]_vars

(***************************************************************************)
(* C10 amended. In every reachable state each path of ORDERED_PATHS has    *)
(* been visited at most once and has been printed at most once, which is   *)
(* one output line when no "name" holds a line break (a name with a line   *)
(* break makes the one print span more lines), the paths printed so far    *)
(* are pairwise distinct, and what has been written is never retracted or  *)
(* reordered: the output of a state is a prefix of the output of every     *)
(* later one.                                                              *)
(***************************************************************************)
PrintedOnce ==
    /\ \A k \in 1..N : Cardinality(PrintedAt(k)) <= 1
    /\ LineCount(stdout) >= Len(printed)
    /\ OneLineNames => LineCount(stdout) = Len(printed)

C10_OnceEachAndAppendOnly ==
    /\ [](VisitedOnce /\ DistinctPaths /\ PrintedOnce)
    /\ [][/\ IsPrefix(stdout, stdout')
          /\ Len(printed') <= Len(printed) + 1]_vars

C10_Witness ==
    /\ Len(checked) = N
    /\ Len(printed) >= 3
    /\ Len(printed) < N
    /\ LineCount(stdout) > Len(printed)

=============================================================================
